---------------------------- MODULE Spec2Model ----------------------------
(***************************************************************************)
(* devilution-comparer: the recompute loop of src/main.rs (watch,          *)
(* run_disassemble, parse_offset), the option parsing of src/cmdline.rs,   *)
(* and the alignment engine / full-binary driver that the two files call   *)
(* (module corelogic), which is modelled from the written specification.   *)
(***************************************************************************)
EXTENDS Integers, Sequences, FiniteSets, TLC

VARIABLES
    pc,               \* position of the process inside main()/watch()
    opts,             \* the Opts value owned by watch()
    overflow_checks,  \* build profile: TRUE = integer overflow panics
    rx,               \* the mpsc channel between the watcher and the loop
    closed,           \* TRUE once every Sender of the channel is gone
    watcher,          \* "none" | "created" | "watching"
    output,           \* the line most recently printed on stdout
    delivered,        \* history: events the change source has sent
    received,         \* history: events rx.recv() has returned
    started,          \* history: calls of run_disassemble entered
    completed,        \* history: calls of run_disassemble returned
    lastOk,           \* history: most recent Ok value of run_compare
    cmp,              \* alignment engine: inputs and result of one compare
    gen               \* full-binary driver: table, cursor and counters

vars == <<pc, opts, overflow_checks, rx, closed, watcher, output,
          delivered, received, started, completed, lastOk, cmp, gen>>

watchVars == <<pc, opts, overflow_checks, rx, closed, watcher, output,
               delivered, received, started, completed, lastOk>>

-----------------------------------------------------------------------------
(* Bounds *)

MaxEvents == 2      \* events the change source sends in one behaviour
MaxVal == 1         \* offsets and lengths run_compare may return: 0..MaxVal

-----------------------------------------------------------------------------
(* Option<T> *)

None == <<>>
Some(x) == <<x>>
Unwrap(o) == o[1]

-----------------------------------------------------------------------------
(* parse_offset: "0x" prefix selects radix 16, anything else radix 10 *)

DigitVal(c) ==
    CASE c = "0" -> 0 [] c = "1" -> 1 [] c = "2" -> 2 [] c = "3" -> 3
      [] c = "4" -> 4 [] c = "5" -> 5 [] c = "6" -> 6 [] c = "7" -> 7
      [] c = "8" -> 8 [] c = "9" -> 9
      [] c \in {"a", "A"} -> 10 [] c \in {"b", "B"} -> 11
      [] c \in {"c", "C"} -> 12 [] c \in {"d", "D"} -> 13
      [] c \in {"e", "E"} -> 14 [] c \in {"f", "F"} -> 15
      [] OTHER -> 99

RECURSIVE FromStrRadixAcc(_, _, _)
FromStrRadixAcc(s, radix, acc) ==
    IF s = <<>> THEN Some(acc)
    ELSE IF DigitVal(Head(s)) >= radix THEN None
    ELSE FromStrRadixAcc(Tail(s), radix, acc * radix + DigitVal(Head(s)))

from_str_radix(s, radix) ==
    IF s = <<>> THEN None ELSE FromStrRadixAcc(s, radix, 0)

parse_offset(v) ==
    IF Len(v) >= 2 /\ v[1] = "0" /\ v[2] = "x"
    THEN from_str_radix(SubSeq(v, 3, Len(v)), 16)
    ELSE from_str_radix(v, 10)

is_vaild_number(v) == parse_offset(v) # None

-----------------------------------------------------------------------------
(* Paths and the command line of main() *)

Path(stem, ext) == [stem |-> stem, ext |-> ext]
with_extension(p, e) == [p EXCEPT !.ext = e]

OffsetArgs == { <<"0", "x", "1", "F">>, <<"3", "1">>, <<"0", "x">>, <<"1", "G">> }

CmdLines ==
    [ DIABLO_FILE : {Path("Diablo", "exe")},
      DEVILUTION_FILE : {Path("Devilution", "exe")},
      DIABLO_OFFSET_START : {a \in OffsetArgs : is_vaild_number(a)},
      DEBUG_SYMBOL : {"InitMonsters"},
      watch : BOOLEAN,
      noaddr : BOOLEAN ]

MainOpts(cmdline) ==
    [ orig |-> cmdline.DIABLO_FILE,
      compare_file_path |-> cmdline.DEVILUTION_FILE,
      compare_pdb_file |-> with_extension(cmdline.DEVILUTION_FILE, "pdb"),
      orig_offset_start |-> Unwrap(parse_offset(cmdline.DIABLO_OFFSET_START)),
      debug_symbol |-> cmdline.DEBUG_SYMBOL,
      print_adresses |-> ~cmdline.noaddr,
      last_offset_length |-> None,
      enable_watcher |-> cmdline.watch ]

-----------------------------------------------------------------------------
(* run_compare as seen by run_disassemble: Ok((offset, length)) or one of   *)
(* the five CoreError variants matched in run_disassemble                   *)

ResultValues == 0..MaxVal

CoreErrors == {"CvDumpFail", "CvDumpUnsuccessful", "SymbolNotFound",
               "IoError", "CapstoneError"}

Ok(offset, length) == [tag |-> "Ok", offset |-> offset, length |-> length, err |-> ""]
Err(e) == [tag |-> "Err", offset |-> 0, length |-> 0, err |-> e]

RunCompare(o) ==
    {Ok(off, len) : off \in ResultValues, len \in ResultValues}
        \cup {Err(e) : e \in CoreErrors}

(* offset - old_offset on unsigned 64-bit operands. The result is written   *)
(* <<k, v>> and stands for the number k * 2^64 + v: k = 1 is the           *)
(* wrapped-around value a release build computes when a < b.                *)
U64Sub(a, b) == <<IF a >= b THEN 0 ELSE 1, a - b>>
SubOverflows(a, b) == a < b

Line(kind, offset, d_offset, length, d_length) ==
    [kind |-> kind, offset |-> offset, d_offset |-> d_offset,
     length |-> length, d_length |-> d_length]
Message(kind) == Line(kind, None, None, None, None)

ErrorMessage(e) == Message(e)

(* run_disassemble variants that are wrong on purpose: the first forgets    *)
(* the retained result when run_compare fails, the second rebuilds opts     *)
(* with the address column switched back on after a successful run.         *)
RunDisassemble_ErrForgets(o, res, checks) ==
    IF res.tag = "Ok"
    THEN [panicked |-> FALSE,
          opts |-> [o EXCEPT !.last_offset_length =
                                 Some(<<res.offset, res.length>>)],
          printed |-> Some(Message("Found"))]
    ELSE [panicked |-> FALSE,
          opts |-> [o EXCEPT !.last_offset_length = None],
          printed |-> Some(ErrorMessage(res.err))]

RunDisassemble_ResetsFlag(o, res, checks) ==
    IF res.tag = "Ok"
    THEN [panicked |-> FALSE,
          opts |-> [o EXCEPT !.last_offset_length =
                                 Some(<<res.offset, res.length>>),
                             !.print_adresses = TRUE],
          printed |-> Some(Message("Found"))]
    ELSE [panicked |-> FALSE, opts |-> o,
          printed |-> Some(ErrorMessage(res.err))]

(* run_disassemble(&mut opts): the new opts, the line printed, and whether  *)
(* the call panicked while formatting the line.                             *)
RunDisassemble(o, res, checks) ==
    IF res.tag = "Ok"
    THEN LET old == o.last_offset_length
             underflow == /\ old # None
                          /\ \/ SubOverflows(res.offset, Unwrap(old)[1])
                             \/ SubOverflows(res.length, Unwrap(old)[2])
         IN  IF underflow /\ checks
             THEN [panicked |-> TRUE, opts |-> o, printed |-> None]
             ELSE [panicked |-> FALSE,
                   opts |-> [o EXCEPT !.last_offset_length =
                                          Some(<<res.offset, res.length>>)],
                   printed |-> Some(Line("Found",
                       Some(res.offset),
                       IF old # None
                         THEN Some(U64Sub(res.offset, Unwrap(old)[1]))
                         ELSE None,
                       Some(res.length),
                       IF old # None
                         THEN Some(U64Sub(res.length, Unwrap(old)[2]))
                         ELSE None))]
    ELSE [panicked |-> FALSE, opts |-> o,
          printed |-> Some(ErrorMessage(res.err))]

-----------------------------------------------------------------------------
(* The change source and the channel *)

EventKinds == {"Create", "Write", "NoticeWrite", "Remove"}

(* wrong on purpose: every received event runs a recompute *)
IsTrigger_AnyEvent(e) == e \in EventKinds

(* wrong on purpose: a receive drains the channel and keeps the oldest *)
ChannelRecv_Drains(q) == [event |-> Head(q), rest |-> <<>>]

(* the match in the loop of watch(): which received events run a recompute *)
IsTrigger(e) == e \in {"Create", "Write"}

(* rx.recv() on a non-empty channel: the oldest event and what is left *)
ChannelRecv(q) == [event |-> Head(q), rest |-> Tail(q)]

Idle == "recv"
Running == "run"
LoopStates == {Idle, Running}
LiveStates == {"initial_run", "check_watcher", "new_watcher", "watch_path",
               Idle, Running}

CmpOff == [phase |-> "off"]
GenOff == [phase |-> "off"]

-----------------------------------------------------------------------------
(* main() up to the call of watch(opts) *)

InitWatch ==
    /\ pc = "initial_run"
    /\ opts \in {MainOpts(c) : c \in CmdLines}
    /\ overflow_checks \in BOOLEAN
    /\ rx = <<>>
    /\ closed = FALSE
    /\ watcher = "none"
    /\ output = None
    /\ delivered = <<>>
    /\ received = <<>>
    /\ started = 0
    /\ completed = 0
    /\ lastOk = None
    /\ cmp = CmpOff
    /\ gen = GenOff

(* the effect of one call run_disassemble(&mut opts) whose run_compare      *)
(* returned res; next is where the caller continues                         *)
Disassembled(res, next) ==
    LET r == RunDisassemble(opts, res, overflow_checks)
    IN  /\ opts' = r.opts
        /\ output' = IF r.printed = None THEN output ELSE r.printed
        /\ lastOk' = IF res.tag = "Ok"
                       THEN Some(<<res.offset, res.length>>) ELSE lastOk
        /\ completed' = IF r.panicked THEN completed ELSE completed + 1
        /\ pc' = IF r.panicked THEN "panicked" ELSE next

(* watch(): "initial run" *)
InitialRun ==
    /\ pc = "initial_run"
    /\ started' = started + 1
    /\ \E res \in RunCompare(opts) : Disassembled(res, "check_watcher")
    /\ UNCHANGED <<overflow_checks, rx, closed, watcher, delivered, received,
                   cmp, gen>>

(* wrong on purpose: subscribes whatever the watch flag says *)
CheckWatcher_IgnoresFlag ==
    /\ pc = "check_watcher"
    /\ pc' = "new_watcher"
    /\ UNCHANGED <<opts, overflow_checks, rx, closed, watcher, output,
                   delivered, received, started, completed, lastOk, cmp, gen>>

(* watch(): if !opts.enable_watcher { return Ok(()) }; channel() *)
CheckWatcher ==
    /\ pc = "check_watcher"
    /\ pc' = IF ~opts.enable_watcher THEN "returned_ok" ELSE "new_watcher"
    /\ UNCHANGED <<opts, overflow_checks, rx, closed, watcher, output,
                   delivered, received, started, completed, lastOk, cmp, gen>>

(* watch(): Watcher::new(tx, 2s)?  -- main prints "Error: .." on Err *)
NewWatcher ==
    /\ pc = "new_watcher"
    /\ \E ok \in BOOLEAN :
         IF ok
         THEN /\ watcher' = "created"
              /\ pc' = "watch_path"
              /\ UNCHANGED output
         ELSE /\ watcher' = "failed"
              /\ pc' = "returned_err"
              /\ output' = Some(Message("Error"))
    /\ UNCHANGED <<opts, overflow_checks, rx, closed, delivered, received,
                   started, completed, lastOk, cmp, gen>>

(* watch(): watcher.watch(&opts.compare_pdb_file, NonRecursive)?; println *)
WatchPath ==
    /\ pc = "watch_path"
    /\ \E ok \in BOOLEAN :
         IF ok
         THEN /\ watcher' = "watching"
              /\ pc' = Idle
              /\ output' = Some(Message("Started watching"))
         ELSE /\ watcher' = "failed"
              /\ pc' = "returned_err"
              /\ output' = Some(Message("Error"))
    /\ UNCHANGED <<opts, overflow_checks, rx, closed, delivered, received,
                   started, completed, lastOk, cmp, gen>>

(* the change source sends one debounced event *)
Deliver ==
    /\ pc \in LoopStates
    /\ watcher = "watching"
    /\ ~closed
    /\ Len(delivered) < MaxEvents
    /\ \E e \in EventKinds :
         /\ rx' = Append(rx, e)
         /\ delivered' = Append(delivered, e)
    /\ UNCHANGED <<pc, opts, overflow_checks, closed, watcher, output,
                   received, started, completed, lastOk, cmp, gen>>

(* the sending half of the channel goes away *)
Disconnect ==
    /\ pc \in LoopStates
    /\ watcher = "watching"
    /\ ~closed
    /\ closed' = TRUE
    /\ UNCHANGED <<pc, opts, overflow_checks, rx, watcher, output, delivered,
                   received, started, completed, lastOk, cmp, gen>>

(* loop: rx.recv() returns Ok(event); Create/Write enter run_disassemble *)
Recv ==
    /\ pc = Idle
    /\ rx # <<>>
    /\ LET got == ChannelRecv(rx)
       IN  /\ rx' = got.rest
           /\ received' = Append(received, got.event)
           /\ IF IsTrigger(got.event)
              THEN pc' = Running /\ started' = started + 1
              ELSE UNCHANGED <<pc, started>>
    /\ UNCHANGED <<opts, overflow_checks, closed, watcher, output, delivered,
                   completed, lastOk, cmp, gen>>

(* loop: rx.recv() returns Err: the channel is empty and disconnected *)
RecvError ==
    /\ pc = Idle
    /\ rx = <<>>
    /\ closed
    /\ output' = Some(Message("Watch error"))
    /\ UNCHANGED <<pc, opts, overflow_checks, rx, closed, watcher, delivered,
                   received, started, completed, lastOk, cmp, gen>>

(* loop: run_disassemble(&mut opts) runs to its end *)
Recompute ==
    /\ pc = Running
    /\ \E res \in RunCompare(opts) : Disassembled(res, Idle)
    /\ UNCHANGED <<overflow_checks, rx, closed, watcher, delivered, received,
                   started, cmp, gen>>

(* CTRL+C *)
Cancel ==
    /\ pc \in LiveStates
    /\ pc' = "cancelled"
    /\ UNCHANGED <<opts, overflow_checks, rx, closed, watcher, output,
                   delivered, received, started, completed, lastOk, cmp, gen>>

Next ==
    \/ InitialRun
    \/ CheckWatcher
    \/ NewWatcher
    \/ WatchPath
    \/ Deliver
    \/ Disconnect
    \/ Recv
    \/ RecvError
    \/ Recompute
    \/ Cancel

Spec == InitWatch /\ [][Next]_vars

-----------------------------------------------------------------------------
(* Properties of the recompute loop *)

Triggers == {"Create", "Write"}

RECURSIVE CountTriggers(_)
CountTriggers(q) ==
    IF q = <<>> THEN 0
    ELSE (IF Head(q) \in Triggers THEN 1 ELSE 0) + CountTriggers(Tail(q))

(* C1: as long as the process is alive, the retained last_offset_length is  *)
(* the value of the most recent run_compare that returned Ok, and None if   *)
(* none has; a run that ends in a CoreError therefore leaves it as it was.  *)
C1_RetainedIsLastSuccess ==
    pc # "panicked" => opts.last_offset_length = lastOk

(* a failed run has just completed after an earlier successful one *)
C1_Witness ==
    /\ pc = Idle
    /\ completed >= 2
    /\ lastOk # None
    /\ output # None
    /\ Unwrap(output).kind \in CoreErrors

(* C2: every successful run that follows an earlier successful one prints   *)
(* the signed differences (O2 - O1, L2 - L1), negative ones included.       *)
C2_SignedDeltas ==
    [][ ( /\ pc \in {Running}
          /\ lastOk # None
          /\ \/ pc' = "panicked"
             \/ pc' = Idle /\ output' # None /\ Unwrap(output').kind = "Found" )
        => output' = Some(Line("Found",
                Some(Unwrap(lastOk')[1]),
                Some(<<0, Unwrap(lastOk')[1] - Unwrap(lastOk)[1]>>),
                Some(Unwrap(lastOk')[2]),
                Some(<<0, Unwrap(lastOk')[2] - Unwrap(lastOk)[2]>>))) ]_vars

(* C3: inside the loop a step either stays inside the loop or is the        *)
(* external cancellation; watch() returns an error only from the two setup  *)
(* steps that precede the loop.                                             *)
C3_LoopEndsOnlyByCancel ==
    [][ /\ pc \in LoopStates => pc' \in LoopStates \cup {"cancelled"}
        /\ pc' = "returned_err" /\ pc # "returned_err"
             => pc \in {"new_watcher", "watch_path"} ]_vars

(* C4: events are received in the order sent and none is lost; one          *)
(* recompute is entered for the initial run and one per received Create or  *)
(* Write; the loop is Idle exactly when every entered recompute has         *)
(* returned, so at most one recompute is in progress.                       *)
C4_SequentialRecomputes ==
    /\ delivered = received \o rx
    /\ pc \in LoopStates \cup {"panicked"} =>
          started = 1 + CountTriggers(received)
    /\ CountTriggers(received) <= started
    /\ started <= 1 + CountTriggers(received)
    /\ pc = Idle => completed = started
    /\ pc = Running => completed + 1 = started
    /\ completed <= started /\ started <= completed + 1

(* two triggers arrived while a recompute was running, and both have been   *)
(* served, one after the other                                              *)
C4_Witness ==
    /\ pc = Idle
    /\ Len(received) >= 2
    /\ CountTriggers(received) >= 2
    /\ completed = 3
    /\ rx = <<>>

(* C8: no step changes any field of opts other than last_offset_length.     *)
C8_OptionsFrozen ==
    [][ [opts' EXCEPT !.last_offset_length = None]
          = [opts EXCEPT !.last_offset_length = None] ]_vars

(* successful and failed runs have both happened, with the address column   *)
(* switched off at startup                                                  *)
C8_Witness ==
    /\ completed >= 2
    /\ opts.last_offset_length # None
    /\ ~opts.print_adresses
    /\ output # None
    /\ Unwrap(output).kind \in CoreErrors

(* C9: a recompute is entered only by the initial run or by receiving a     *)
(* Create or Write event; receiving any other event, or a receive error,    *)
(* leaves opts and the run counters alone and the loop waiting.             *)
C9_OnlyCreateWriteRecompute ==
    [][ /\ started' # started =>
              \/ pc = "initial_run"
              \/ /\ pc = Idle
                 /\ rx # <<>>
                 /\ Head(rx) \in Triggers
                 /\ received' = Append(received, Head(rx))
        /\ ( /\ Len(received') > Len(received)
             /\ received'[Len(received')] \notin Triggers )
             => /\ pc = Idle /\ pc' = Idle
                /\ opts' = opts
                /\ started' = started /\ completed' = completed
        /\ ( /\ output' # output
             /\ output' = Some(Message("Watch error")) )
             => /\ pc = Idle /\ pc' = Idle
                /\ opts' = opts
                /\ started' = started /\ completed' = completed
                /\ received' = received ]_vars

(* an event that is no trigger was received and then a receive error was    *)
(* printed, with a result retained; the loop is waiting                     *)
C9_Witness ==
    /\ pc = Idle
    /\ output = Some(Message("Watch error"))
    /\ \E i \in 1..Len(received) : received[i] \notin Triggers
    /\ opts.last_offset_length # None
    /\ started = 1

(* C10: the initial run comes first; without the watch flag watch()         *)
(* returns Ok after exactly that one run and never creates a watcher; with  *)
(* it, the watcher is created and subscribed only after the initial run has *)
(* returned, so a setup error comes after that run and its update.          *)
C10_InitialRunFirst ==
    /\ pc \notin {"initial_run", "cancelled"} => started >= 1 /\ completed >= 1
    /\ pc = "initial_run" => watcher = "none" /\ started = 0
    /\ pc = "returned_ok" =>
          /\ ~opts.enable_watcher
          /\ started = 1 /\ completed = 1
    /\ ~opts.enable_watcher =>
          /\ watcher = "none"
          /\ delivered = <<>>
          /\ pc \in {"initial_run", "check_watcher", "returned_ok", "cancelled"}
    /\ watcher # "none" => completed >= 1
    /\ pc = "returned_err" =>
          /\ opts.enable_watcher
          /\ watcher = "failed"
          /\ started = 1 /\ completed = 1
          /\ opts.last_offset_length = lastOk
          /\ output = Some(Message("Error"))

(* a setup error after an initial run that succeeded *)
C10_Witness ==
    /\ pc = "returned_err"
    /\ opts.last_offset_length # None

-----------------------------------------------------------------------------
(* cmdline.rs: the parsed command line (clap's ArgMatches) and the values   *)
(* parse_cmdline builds from it                                             *)

MaxLen == 2         \* function lengths in metadata and size table: 0..MaxLen

is_present(matches, flag) == flag \in matches.flags
value_of(matches, arg) == matches.values[arg]

parse_disasm_opts(matches) ==
    [ print_adresses |-> is_present(matches, "show-ip"),
      show_mem_disp |-> ~is_present(matches, "no-mem-disp"),
      show_imms |-> ~is_present(matches, "no-imms") ]

(* wrong on purpose: the truncate flag is never read *)
parse_compare_args_NoTruncate(matches) ==
    [ compare_opts |->
        [ orig |-> value_of(matches, "DIABLO_FILE"),
          compare_file_path |-> value_of(matches, "DEVILUTION_FILE"),
          compare_pdb_file |->
              with_extension(value_of(matches, "DEVILUTION_FILE"), "pdb"),
          debug_symbol |-> value_of(matches, "DEBUG_SYMBOL") ],
      disasm_opts |-> parse_disasm_opts(matches),
      enable_watcher |-> is_present(matches, "watch"),
      last_offset_size |-> None,
      truncate_to_original |-> FALSE ]

parse_compare_args(matches) ==
    [ compare_opts |->
        [ orig |-> value_of(matches, "DIABLO_FILE"),
          compare_file_path |-> value_of(matches, "DEVILUTION_FILE"),
          compare_pdb_file |->
              with_extension(value_of(matches, "DEVILUTION_FILE"), "pdb"),
          debug_symbol |-> value_of(matches, "DEBUG_SYMBOL") ],
      disasm_opts |-> parse_disasm_opts(matches),
      enable_watcher |-> is_present(matches, "watch"),
      last_offset_size |-> None,
      truncate_to_original |-> is_present(matches, "truncate-to-original") ]

(* wrong on purpose: the orig-file flag is never read *)
parse_generate_full_args_NoOrig(matches) ==
    [ file_path |-> value_of(matches, "FILE"),
      orig_file |-> FALSE,
      disasm_opts |-> parse_disasm_opts(matches),
      truncate_to_original |-> is_present(matches, "truncate-to-original") ]

parse_generate_full_args(matches) ==
    [ file_path |-> value_of(matches, "FILE"),
      orig_file |-> is_present(matches, "orig-file"),
      disasm_opts |-> parse_disasm_opts(matches),
      truncate_to_original |-> is_present(matches, "truncate-to-original") ]

CompareFlagSets ==
    { {}, {"truncate-to-original"}, {"watch", "show-ip"},
      {"no-mem-disp", "no-imms", "truncate-to-original"} }

CompareMatches ==
    { [ flags |-> f,
        values |-> [ DIABLO_FILE |-> Path("Diablo", "exe"),
                     DEVILUTION_FILE |-> Path("Devilution", "exe"),
                     DEBUG_SYMBOL |-> "foo" ] ] : f \in CompareFlagSets }

-----------------------------------------------------------------------------
(* Symbol resolver, image accessor and decoder adapter *)

OptLens == {None} \cup {Some(n) : n \in 0..MaxLen}

(* debug metadata text: one record per function the dump lists *)
FooEntries == {[name |-> "foo", rva |-> a, length |-> l] : a \in {4, 5}, l \in OptLens}
Metadatas ==
    { <<[name |-> "bar", rva |-> 6, length |-> Some(1)]>> }
      \cup { <<[name |-> "bar", rva |-> 6, length |-> Some(1)], e>> : e \in FooEntries }

(* size table: name -> (optional address, optional length) *)
SizeTables ==
    { <<>> } \cup
    { <<[name |-> "foo", addr |-> a, length |-> l]>> :
          a \in {None, Some(6), Some(9)}, l \in OptLens }

(* an image: its section table and, per file offset, what decode_one       *)
(* answers for the bytes starting there: the instruction's byte count, or  *)
(* 0 for an undecodable sequence                                           *)
InstrImages ==
    { [sections |-> <<[va |-> 4, size |-> 4, off |-> 0]>>, bytes |-> b] :
          b \in { <<1, 1, 1, 1>>, <<2, 0, 1, 1>>, <<0, 1, 2, 0>> } }
RefImages ==
    { [sections |-> <<[va |-> 4, size |-> 2, off |-> 2],
                      [va |-> 6, size |-> 2, off |-> 0]>>, bytes |-> b] :
          b \in { <<1, 1, 1, 1>>, <<1, 2, 2, 0>>, <<0, 1, 1, 2>> } }

Lookup(entries, name) ==
    LET hits == {i \in 1..Len(entries) : entries[i].name = name}
    IN  IF hits = {} THEN None
        ELSE Some(entries[CHOOSE i \in hits : \A j \in hits : i <= j])

resolve(debug_metadata_text, symbol_name) ==
    Lookup(debug_metadata_text, symbol_name)

translate(section_map, virtual_address) ==
    LET hits == {i \in 1..Len(section_map) :
                    /\ section_map[i].va <= virtual_address
                    /\ virtual_address < section_map[i].va + section_map[i].size}
    IN  IF Cardinality(hits) # 1 THEN None
        ELSE LET sec == section_map[CHOOSE i \in hits : TRUE]
             IN  Some(sec.off + (virtual_address - sec.va))

read_bytes(image, file_offset, length) ==
    IF file_offset + length > Len(image.bytes) THEN None
    ELSE Some(SubSeq(image.bytes, file_offset + 1, file_offset + length))

RECURSIVE DecodeFrom(_, _, _)
DecodeFrom(bytes, consumed, start_virtual_address) ==
    IF consumed >= Len(bytes) THEN <<>>
    ELSE LET n == bytes[consumed + 1]
         IN  IF n = 0 \/ consumed + n > Len(bytes) THEN <<>>
             ELSE <<[address |-> start_virtual_address + consumed,
                     byte_length |-> n]>>
                    \o DecodeFrom(bytes, consumed + n, start_virtual_address)

RECURSIVE Consumed(_)
Consumed(stream) ==
    IF stream = <<>> THEN 0
    ELSE Head(stream).byte_length + Consumed(Tail(stream))

(* decode(bytes, start, max_length): the instructions, and whether the     *)
(* sequence ended short of max_length                                      *)
decode(bytes, start_virtual_address, max_length) ==
    LET stream == DecodeFrom(SubSeq(bytes, 1, max_length), 0, start_virtual_address)
    IN  [stream |-> stream, ended_early |-> Consumed(stream) < max_length]

-----------------------------------------------------------------------------
(* Alignment engine: compare(instrumented, reference, symbol, table, opts)  *)

(* step 2: the length from the debug metadata, else from the size table *)
FinalLength(symbol_info, size_table) ==
    IF symbol_info.length # None THEN symbol_info.length
    ELSE LET e == Lookup(size_table, symbol_info.name)
         IN  IF e = None THEN None ELSE Unwrap(e).length

(* the reference function's own known length *)
ReferenceLength(size_table, symbol_name) ==
    LET e == Lookup(size_table, symbol_name)
    IN  IF e = None THEN None ELSE Unwrap(e).length

(* step 5: the byte count the compare stream is decoded with *)
CompareLength(truncate_to_reference_length, length, reference_length) ==
    IF truncate_to_reference_length /\ reference_length # None
    THEN Unwrap(reference_length)
    ELSE length

(* step 4: where the reference function is looked for *)
ReferenceAddress(size_table, symbol_name, rva) ==
    LET e == Lookup(size_table, symbol_name)
    IN  IF e # None /\ Unwrap(e).addr # None THEN Unwrap(Unwrap(e).addr) ELSE rva

(* wrong on purpose: the reference stream is anchored where it was read *)
ReferenceAnchor_OwnAddress(rva, reference_address) == reference_address

(* step 6: the virtual address the reference stream is decoded at *)
ReferenceAnchor(rva, reference_address) == rva

(* translate, read and decode one side; an error kind or the stream *)
Disassemble(image, virtual_address, length, anchor) ==
    LET off == translate(image.sections, virtual_address)
    IN  IF off = None THEN [err |-> "IoError", stream |-> <<>>]
        ELSE LET bytes == read_bytes(image, Unwrap(off), length)
             IN  IF bytes = None THEN [err |-> "IoError", stream |-> <<>>]
                 ELSE LET d == decode(Unwrap(bytes), anchor, length)
                      IN  IF d.ended_early /\ d.stream = <<>>
                          THEN [err |-> "CapstoneError", stream |-> <<>>]
                          ELSE [err |-> "", stream |-> d.stream]

CmpStart(m, md, t, i, r) ==
    [ phase |-> "cmdline", matches |-> m, info |-> None,
      metadata |-> md, size_table |-> t, instrumented |-> i, reference |-> r,
      symbol_info |-> None, length |-> None, compare_length |-> None,
      reference_address |-> None,
      compare_stream |-> <<>>, orig_stream |-> <<>>,
      written |-> FALSE, result |-> None ]

InitCompare ==
    /\ pc = "off"
    /\ opts = None
    /\ overflow_checks = FALSE
    /\ rx = <<>>
    /\ closed = FALSE
    /\ watcher = "none"
    /\ output = None
    /\ delivered = <<>>
    /\ received = <<>>
    /\ started = 0
    /\ completed = 0
    /\ lastOk = None
    /\ gen = GenOff
    /\ cmp \in { CmpStart(m, md, t, i, r) :
                    m \in CompareMatches, md \in Metadatas, t \in SizeTables,
                    i \in InstrImages, r \in RefImages }

CmpFail(e) == cmp' = [cmp EXCEPT !.phase = "failed", !.result = Some(Err(e))]

(* parse_cmdline: Command::Compare(parse_compare_args(&matches)) *)
CmpParseCmdline ==
    /\ cmp.phase = "cmdline"
    /\ cmp' = [cmp EXCEPT !.phase = "resolve",
                          !.info = Some(parse_compare_args(cmp.matches))]
    /\ UNCHANGED <<watchVars, gen>>

(* step 1 *)
CmpResolve ==
    /\ cmp.phase = "resolve"
    /\ LET s == resolve(cmp.metadata, Unwrap(cmp.info).compare_opts.debug_symbol)
       IN  IF s = None THEN CmpFail("SymbolNotFound")
           ELSE cmp' = [cmp EXCEPT !.phase = "length", !.symbol_info = s]
    /\ UNCHANGED <<watchVars, gen>>

(* step 2 *)
CmpLength ==
    /\ cmp.phase = "length"
    /\ LET l == FinalLength(Unwrap(cmp.symbol_info), cmp.size_table)
       IN  IF l = None THEN CmpFail("SymbolNotFound")
           ELSE cmp' = [cmp EXCEPT !.phase = "compare", !.length = l]
    /\ UNCHANGED <<watchVars, gen>>

(* steps 3 and 5: the compare stream *)
CmpDecodeCompare ==
    /\ cmp.phase = "compare"
    /\ LET sym == Unwrap(cmp.symbol_info)
           len == CompareLength(Unwrap(cmp.info).truncate_to_original,
                                Unwrap(cmp.length),
                                ReferenceLength(cmp.size_table, sym.name))
           d == Disassemble(cmp.instrumented, sym.rva, len, sym.rva)
       IN  IF d.err # "" THEN CmpFail(d.err)
           ELSE cmp' = [cmp EXCEPT !.phase = "locate",
                                   !.compare_length = Some(len),
                                   !.compare_stream = d.stream]
    /\ UNCHANGED <<watchVars, gen>>

(* step 4 *)
CmpLocateReference ==
    /\ cmp.phase = "locate"
    /\ LET sym == Unwrap(cmp.symbol_info)
       IN  cmp' = [cmp EXCEPT !.phase = "reference",
                     !.reference_address =
                         Some(ReferenceAddress(cmp.size_table, sym.name, sym.rva))]
    /\ UNCHANGED <<watchVars, gen>>

(* step 6: the reference stream *)
CmpDecodeReference ==
    /\ cmp.phase = "reference"
    /\ LET sym == Unwrap(cmp.symbol_info)
           ra == Unwrap(cmp.reference_address)
           d == Disassemble(cmp.reference, ra, Unwrap(cmp.length),
                            ReferenceAnchor(sym.rva, ra))
       IN  IF d.err # "" THEN CmpFail(d.err)
           ELSE cmp' = [cmp EXCEPT !.phase = "write", !.orig_stream = d.stream]
    /\ UNCHANGED <<watchVars, gen>>

(* steps 7 and 8 *)
CmpWrite ==
    /\ cmp.phase = "write"
    /\ cmp' = [cmp EXCEPT !.phase = "done", !.written = TRUE,
                 !.result = Some(Ok(Unwrap(cmp.symbol_info).rva,
                                    Unwrap(cmp.compare_length)))]
    /\ UNCHANGED <<watchVars, gen>>

NextCompare ==
    \/ CmpParseCmdline
    \/ CmpResolve
    \/ CmpLength
    \/ CmpDecodeCompare
    \/ CmpLocateReference
    \/ CmpDecodeReference
    \/ CmpWrite

SpecCompare == InitCompare /\ [][NextCompare]_vars

(* the instructions of a stream follow each other from address a on *)
RECURSIVE AnchoredAt(_, _)
AnchoredAt(stream, a) ==
    \/ stream = <<>>
    \/ /\ Head(stream).address = a
       /\ AnchoredAt(Tail(stream), a + Head(stream).byte_length)

(* the entry of the metadata text for the symbol named on the command line *)
NamedSymbol ==
    LET name == cmp.matches.values["DEBUG_SYMBOL"]
    IN  {cmp.metadata[i] : i \in {j \in 1..Len(cmp.metadata) :
                                      cmp.metadata[j].name = name}}

(* C5: a compare that succeeded returns the symbol's rva as offset, and     *)
(* both streams start at that rva and continue from it instruction by       *)
(* instruction, wherever the reference bytes were read.                     *)
C5_SameAnchor ==
    (cmp.phase = "done" /\ Unwrap(cmp.result).tag = "Ok") =>
        \E e \in NamedSymbol :
            /\ Unwrap(cmp.result).offset = e.rva
            /\ AnchoredAt(cmp.compare_stream, e.rva)
            /\ AnchoredAt(cmp.orig_stream, e.rva)
            /\ Unwrap(cmp.result).length = Unwrap(cmp.compare_length)

(* the reference bytes were read at another address and file offset than    *)
(* the instrumented ones, and both streams hold instructions                *)
C5_Witness ==
    /\ cmp.phase = "done"
    /\ Unwrap(cmp.result).tag = "Ok"
    /\ Unwrap(cmp.reference_address) # Unwrap(cmp.symbol_info).rva
    /\ translate(cmp.reference.sections, Unwrap(cmp.reference_address))
         # translate(cmp.instrumented.sections, Unwrap(cmp.symbol_info).rva)
    /\ Len(cmp.compare_stream) >= 2
    /\ Len(cmp.orig_stream) >= 2

-----------------------------------------------------------------------------
(* Full-binary driver: generate_all(image, size_table, for_reference, opts) *)

MaxTable == 3       \* entries of the size table handed to generate_all

SymbolNames == <<"foo", "bar", "baz", "qux", "quux">>

GenEntries(i) ==
    { [name |-> SymbolNames[i], addr |-> a, length |-> l] :
          a \in {None, Some(6), Some(9)}, l \in {None, Some(1), Some(2)} }

RECURSIVE GenTablesOfLen(_)
GenTablesOfLen(k) ==
    IF k = 0 THEN { <<>> }
    ELSE { Append(t, e) : t \in GenTablesOfLen(k - 1), e \in GenEntries(k) }

GenTables == UNION { GenTablesOfLen(k) : k \in 0..MaxTable }

GenFlagSets == { {}, {"orig-file"}, {"orig-file", "no-imms"}, {"show-ip"} }

GenMatches ==
    { [flags |-> f, values |-> [FILE |-> Path("Diablo", "exe")]] :
          f \in GenFlagSets }

GenImage ==
    [sections |-> <<[va |-> 4, size |-> 2, off |-> 2],
                    [va |-> 6, size |-> 2, off |-> 0]>>,
     bytes |-> <<1, 1, 2, 0>>]

GenMetadata ==
    << [name |-> "foo", rva |-> 6, length |-> Some(2)],
       [name |-> "bar", rva |-> 4, length |-> None] >>

InitGen ==
    /\ pc = "off"
    /\ opts = None
    /\ overflow_checks = FALSE
    /\ rx = <<>>
    /\ closed = FALSE
    /\ watcher = "none"
    /\ output = None
    /\ delivered = <<>>
    /\ received = <<>>
    /\ started = 0
    /\ completed = 0
    /\ lastOk = None
    /\ cmp = CmpOff
    /\ gen \in { [ phase |-> "cmdline", matches |-> m, info |-> None,
                   size_table |-> t, idx |-> 0,
                   count_written |-> 0, count_skipped |-> 0,
                   visited |-> <<>>, out |-> <<>>, errors |-> <<>>,
                   result |-> None ] : m \in GenMatches, t \in GenTables }

(* parse_cmdline: Command::GenerateFull(parse_generate_full_args(&matches)) *)
GenParseCmdline ==
    /\ gen.phase = "cmdline"
    /\ gen' = [gen EXCEPT !.phase = "loop",
                          !.info = Some(parse_generate_full_args(gen.matches))]
    /\ UNCHANGED <<watchVars, cmp>>

(* one entry of the table: "skipped", an error kind, or the block written *)
GenerateOne(entry, size_table, for_reference) ==
    IF for_reference
    THEN IF entry.length = None THEN [kind |-> "skipped", stream |-> <<>>]
         ELSE IF entry.addr = None
              THEN [kind |-> "SymbolNotFound", stream |-> <<>>]
              ELSE LET d == Disassemble(GenImage, Unwrap(entry.addr),
                                        Unwrap(entry.length), Unwrap(entry.addr))
                   IN  [kind |-> IF d.err = "" THEN "written" ELSE d.err,
                        stream |-> d.stream]
    ELSE LET s == resolve(GenMetadata, entry.name)
         IN  IF s = None THEN [kind |-> "SymbolNotFound", stream |-> <<>>]
             ELSE LET l == FinalLength(Unwrap(s), size_table)
                  IN  IF l = None THEN [kind |-> "SymbolNotFound", stream |-> <<>>]
                      ELSE LET d == Disassemble(GenImage, Unwrap(s).rva,
                                                Unwrap(l), Unwrap(s).rva)
                           IN  [kind |-> IF d.err = "" THEN "written" ELSE d.err,
                                stream |-> d.stream]

(* the loop body of generate_all for the next entry in stored order *)
GenStep ==
    /\ gen.phase = "loop"
    /\ gen.idx < Len(gen.size_table)
    /\ LET entry == gen.size_table[gen.idx + 1]
           r == GenerateOne(entry, gen.size_table, Unwrap(gen.info).orig_file)
       IN  gen' = [gen EXCEPT
              !.idx = @ + 1,
              !.visited = Append(@, entry.name),
              !.count_skipped = IF r.kind = "skipped" THEN @ + 1 ELSE @,
              !.count_written = IF r.kind = "written" THEN @ + 1 ELSE @,
              !.out = IF r.kind = "written"
                        THEN Append(@, [header |-> entry.name, stream |-> r.stream])
                        ELSE @,
              !.errors = IF r.kind \notin {"written", "skipped"}
                           THEN Append(@, [name |-> entry.name, err |-> r.kind])
                           ELSE @]
    /\ UNCHANGED <<watchVars, cmp>>

(* generate_all returns (count_written, count_skipped) *)
GenReturn ==
    /\ gen.phase = "loop"
    /\ gen.idx = Len(gen.size_table)
    /\ gen' = [gen EXCEPT !.phase = "done",
                 !.result = Some(<<gen.count_written, gen.count_skipped>>)]
    /\ UNCHANGED <<watchVars, cmp>>

NextGen ==
    \/ GenParseCmdline
    \/ GenStep
    \/ GenReturn

SpecGen == InitGen /\ [][NextGen]_vars

(* the names, in table order, of those of the first n entries whose length  *)
(* is known (known = TRUE) or missing (known = FALSE)                       *)
RECURSIVE NamesWhere(_, _, _)
NamesWhere(table, n, known) ==
    IF n = 0 THEN <<>>
    ELSE LET rest == NamesWhere(table, n - 1, known)
         IN  IF (table[n].length # None) = known
             THEN Append(rest, table[n].name) ELSE rest

RECURSIVE Merged(_, _, _)
(* whether sequence s is an order-preserving interleaving of a and b *)
Merged(s, a, b) ==
    IF s = <<>> THEN a = <<>> /\ b = <<>>
    ELSE \/ a # <<>> /\ Head(a) = Head(s) /\ Merged(Tail(s), Tail(a), b)
         \/ b # <<>> /\ Head(b) = Head(s) /\ Merged(Tail(s), a, Tail(b))

(* C7: with --orig-file, generate_all goes through the table in stored      *)
(* order; the entries without a length are the skipped ones and are         *)
(* counted; each entry with a length is either written (in table order) or  *)
(* reported as an error, never both and never skipped; so written +         *)
(* skipped + errors = entries visited, and at the end count_skipped =       *)
(* K - count_written when no entry failed.                                  *)
C7_ReferenceDriverCounts ==
    ("orig-file" \in gen.matches.flags /\ gen.phase # "cmdline") =>
        LET K == Len(gen.size_table)
            withLen == NamesWhere(gen.size_table, gen.idx, TRUE)
            without == NamesWhere(gen.size_table, gen.idx, FALSE)
        IN  /\ gen.visited = [i \in 1..gen.idx |-> gen.size_table[i].name]
            /\ gen.count_skipped = Len(without)
            /\ gen.count_written = Len(gen.out)
            /\ Merged(withLen,
                      [i \in 1..Len(gen.out) |-> gen.out[i].header],
                      [i \in 1..Len(gen.errors) |-> gen.errors[i].name])
            /\ gen.count_written + gen.count_skipped + Len(gen.errors) = gen.idx
            /\ gen.phase = "done" =>
                  /\ gen.idx = K
                  /\ gen.result = Some(<<gen.count_written, gen.count_skipped>>)
                  /\ gen.count_skipped = K - gen.count_written - Len(gen.errors)
                  /\ gen.errors = <<>> => gen.count_skipped = K - gen.count_written

(* a table of three entries of which one was written, one skipped and one   *)
(* failed                                                                   *)
C7_Witness ==
    /\ gen.phase = "done"
    /\ "orig-file" \in gen.matches.flags
    /\ Len(gen.size_table) = 3
    /\ gen.count_written = 1
    /\ gen.count_skipped = 1
    /\ Len(gen.errors) = 1

=============================================================================
